---- MODULE Spec2Model ----
(***************************************************************************)
(* Crash analytics dashboard: the client-side data pipeline (load, join,   *)
(* filter, aggregate) and the prediction/hotspot clients of the React      *)
(* components.  Every component keeps its own state; `scenario` names the  *)
(* component a behaviour follows.                                          *)
(***************************************************************************)
EXTENDS Integers, Sequences, FiniteSets, TLC

VARIABLES
    scenario,       \* the component (and family of inputs) this behaviour follows
    crashFile,      \* rows Papa.parse yields for CRASH_2023.csv
    flagFile,       \* rows Papa.parse yields for FLAG_2023.csv
    loadData,       \* progress of the asynchronous loadData of the component
    crashMap,       \* CrashMap: data, loading, error, selectors, filteredData
    analyticsPanel, \* AnalyticsPanel: data (four views), loading
    crashStatistics, \* CrashStatistics: stats, loading, error, the three fetches
    hotspotMap,     \* HotspotMap: hotspots, loading, error, sliders, requests
    riskPanel,      \* RiskPredictionPanel: prediction, loading, error, requests
    container       \* PredictionsContainer: hotspots, predictions, selection

vars == <<scenario, crashFile, flagFile, loadData, crashMap, analyticsPanel,
          crashStatistics, hotspotMap, riskPanel, container>>

serviceVars == <<hotspotMap, riskPanel, container>>
dataVars == <<crashFile, flagFile, loadData, crashMap, analyticsPanel, crashStatistics>>

----------------------------------------------------------------------------
(* Bounds of the model.                                                    *)

MaxCrashRows == 2
MaxFlagRows == 2
MaxWeatherRows == 11
MaxWeatherRepeats == 2

SeqsUpTo(S, n) == UNION {[1..k -> S] : k \in 0..n}

----------------------------------------------------------------------------
(* JavaScript values of a parsed CSV field (Papa.parse, dynamicTyping):    *)
(* an empty field is null, a numeric text a number, "true" a boolean, any  *)
(* other text stays a string.  Text is a non-numeric text such as "abc",   *)
(* Blank a text of white space only.                                       *)

Null == [t |-> "null", v |-> 0]
Num(n) == [t |-> "number", v |-> n]
Text == [t |-> "string", v |-> 0]
Blank == [t |-> "blank", v |-> 0]
BoolTrue == [t |-> "boolean", v |-> 1]

\* Texts that name a property every object inherits from Object.prototype;
\* Word(k) is the k-th of them as a parsed field.
InheritedKeys == <<"constructor", "toString">>
Word(k) == [t |-> "string", v |-> k]

\* ToBoolean: null, 0 and false are falsy; a non-empty string is truthy.
Truthy(x) ==
    CASE x.t = "number"  -> x.v # 0
      [] x.t = "boolean" -> x.v = 1
      [] x.t = "string"  -> TRUE
      [] x.t = "blank"   -> TRUE
      [] OTHER           -> FALSE

\* ToNumber yields NaN for the non-numeric text; null and white space are 0,
\* true is 1.
IsNaN(x) == x.t = "string"
ToNumber(x) == IF x.t = "string" THEN 0 ELSE x.v

\* x > n, x >= n, x < n, x <= n with a number on the right: false on NaN.
JsGt(x, n) == ~IsNaN(x) /\ ToNumber(x) > n
JsGe(x, n) == ~IsNaN(x) /\ ToNumber(x) >= n
JsLt(x, n) == ~IsNaN(x) /\ ToNumber(x) < n
JsLe(x, n) == ~IsNaN(x) /\ ToNumber(x) <= n
\* x === n: no coercion.
JsStrictEq(x, n) == x.t = "number" /\ x.v = n
\* x || 0 for a count field that is a number or null.
OrZero(x) == IF Truthy(x) THEN ToNumber(x) ELSE 0

----------------------------------------------------------------------------
(* Rows of the two datasets and the families of inputs of the scenarios.   *)

Row(crn, lat, lon, hour, month, fatal, injury, possible, weather) ==
    [CRN |-> crn, DEC_LAT |-> lat, DEC_LONG |-> lon, HOUR_OF_DAY |-> hour,
     CRASH_MONTH |-> month, FATAL_COUNT |-> fatal, INJURY_COUNT |-> injury,
     POSSIBLE_INJ_COUNT |-> possible, WEATHER1 |-> weather]

FlagRow(crn, wet) == [CRN |-> crn, WET_ROAD |-> wet]

\* Coordinates as parsed: empty, zero, a number, a text, white space, "true".
LatValues == {Null, Num(0), Num(41), Text, Blank, BoolTrue}
LongValues == {Num(-77), Text}

\* CrashMapLoad: rows that differ in CRN and in the two coordinates.
LoadCrashRows ==
    {Row(Num(c), Num(41), Num(-77), Num(8), Num(1), Num(1), Num(0), Num(0), Num(1)) :
        c \in {0, 1, 2}}
    \cup
    {Row(Num(1), lat, lon, Num(8), Num(1), Num(1), Num(0), Num(0), Num(1)) :
        lat \in LatValues, lon \in LongValues}

LoadFlagRows ==
    {FlagRow(Num(1), Num(0)), FlagRow(Num(1), Num(1)),
     FlagRow(Num(0), Num(0)), FlagRow(Num(0), Num(1)), FlagRow(Null, Num(1))}

\* CrashMapFilter: rows with valid coordinates that differ in hour and severity.
HourValues ==
    {Null, Num(0), Num(5), Num(6), Num(11), Num(12), Num(17), Num(18), Num(23), Num(24)}

FilterCrashRows ==
    {Row(Num(1), Num(41), Num(-77), h, Num(1), Num(1), Num(1), Num(0), Num(1)) :
        h \in HourValues}
    \cup
    {Row(Num(1), Num(41), Num(-77), h, Num(1), fi[1], fi[2], Num(0), Num(1)) :
        h \in {Num(5), Num(12)},
        fi \in {<<Num(0), Num(0)>>, <<Num(1), Num(0)>>, <<Num(0), Num(2)>>, <<Null, Null>>}}

\* AnalyticsPanel: rows that differ in the two severity counts, and rows that
\* differ in hour, month and weather code.
AnalyticsCrashRows ==
    {Row(Num(1), Num(41), Num(-77), Num(8), Num(1), f, i, Num(0), Num(1)) :
        f \in {Null, Num(0), Num(1), Num(2)}, i \in {Null, Num(0), Num(1)}}
    \cup
    {Row(Num(1), Num(41), Num(-77), hmw[1], hmw[2], Num(2), Num(1), Num(0), hmw[3]) :
        hmw \in {<<Num(0), Num(12), Num(3)>>, <<Num(23), Null, Num(50)>>,
                 <<Num(24), Num(13), Null>>, <<Null, Num(0), Num(99)>>}}

\* AnalyticsWeather: rows that differ in the weather code only.  A file is a
\* run of consecutive codes of WeatherCodes followed by a few repeated codes.
WeatherCodes ==
    <<Num(1), Num(2), Num(3), Num(4), Num(5), Num(6), Num(7), Num(8), Num(98),
      Num(99), Word(1), Word(2), Num(50), Null>>

WeatherTailCodes == {Num(3), Num(50), Word(1)}

WeatherRow(code) ==
    Row(Num(1), Num(41), Num(-77), Num(8), Num(1), Num(1), Num(0), Num(0), code)

WeatherRuns ==
    {SubSeq(WeatherCodes, ij[1], ij[2]) :
        ij \in {p \in (1..Len(WeatherCodes)) \X (0..Len(WeatherCodes)) :
                    p[2] - p[1] + 1 <= MaxWeatherRows}}

WeatherCrashFiles ==
    {[k \in 1..Len(run) + Len(tail) |->
        WeatherRow(IF k <= Len(run) THEN run[k] ELSE tail[k - Len(run)])] :
        run \in WeatherRuns, tail \in SeqsUpTo(WeatherTailCodes, MaxWeatherRepeats)}

\* CrashMapReload: valid rows that differ in CRN, and a row without latitude.
ReloadCrashRows ==
    {Row(Num(c), Num(41), Num(-77), Num(8), Num(1), Num(1), Num(0), Num(0), Num(1)) :
        c \in {0, 1, 2}}
    \cup
    {Row(Num(1), Null, Num(-77), Num(8), Num(1), Num(1), Num(0), Num(0), Num(1))}

\* The scenarios that follow AnalyticsPanel.
AnalyticsScenarios == {"AnalyticsPanel", "AnalyticsWeather"}

\* The scenarios that follow CrashMap.
CrashMapScenarios == {"CrashMapLoad", "CrashMapFilter", "CrashMapReload"}

CrashRowsOf(s) ==
    CASE s = "CrashMapLoad"   -> LoadCrashRows
      [] s = "CrashMapReload" -> ReloadCrashRows
      [] s = "CrashMapFilter" -> FilterCrashRows
      [] s = "AnalyticsPanel" -> AnalyticsCrashRows
      [] OTHER                -> {}

\* The crash datasets a scenario chooses from.
CrashFilesOf(s) ==
    IF s = "AnalyticsWeather" THEN WeatherCrashFiles
    ELSE SeqsUpTo(CrashRowsOf(s), MaxCrashRows)

FlagRowsOf(s) ==
    CASE s = "CrashMapLoad"   -> LoadFlagRows
      [] s = "CrashMapReload" -> LoadFlagRows
      [] OTHER              -> {}

NoError == "null"
FetchError == "Failed to fetch"
\* error.message of the TypeError a fetch rejects with: the same text for
\* every file.
RejectionMessage(file) == FetchError

----------------------------------------------------------------------------
(* CrashMap (the component with the join and the two selectors).           *)

EmptyObject == <<>>

\* flagLookup after the first i rows of flagResults.data.forEach.
RECURSIVE FlagLookupUpTo(_, _)
FlagLookupUpTo(flags, i) ==
    IF i = 0 THEN EmptyObject
    ELSE LET prev == FlagLookupUpTo(flags, i - 1)
             flag == flags[i]
         IN  IF Truthy(flag.CRN)
             THEN [k \in DOMAIN prev \cup {flag.CRN} |->
                      IF k = flag.CRN THEN flag ELSE prev[k]]
             ELSE prev

FlagLookup(flags) == FlagLookupUpTo(flags, Len(flags))

\* flagLookup[crash.CRN] || {}
LookupFlags(lookup, crn) == IF crn \in DOMAIN lookup THEN lookup[crn] ELSE EmptyObject

IsValid(crash) ==
    /\ Truthy(crash.DEC_LAT)
    /\ Truthy(crash.DEC_LONG)
    /\ ~IsNaN(crash.DEC_LAT)
    /\ ~IsNaN(crash.DEC_LONG)

calculateWeight(crash) ==
    OrZero(crash.FATAL_COUNT) * 10
    + OrZero(crash.INJURY_COUNT) * 5
    + OrZero(crash.POSSIBLE_INJ_COUNT) * 2 + 1

\* One element of combinedData: the crash row spread, plus flags, weight, position.
Enrich(crash, lookup) ==
    [CRN |-> crash.CRN, DEC_LAT |-> crash.DEC_LAT, DEC_LONG |-> crash.DEC_LONG,
     HOUR_OF_DAY |-> crash.HOUR_OF_DAY, CRASH_MONTH |-> crash.CRASH_MONTH,
     FATAL_COUNT |-> crash.FATAL_COUNT, INJURY_COUNT |-> crash.INJURY_COUNT,
     POSSIBLE_INJ_COUNT |-> crash.POSSIBLE_INJ_COUNT, WEATHER1 |-> crash.WEATHER1,
     flags |-> LookupFlags(lookup, crash.CRN),
     weight |-> calculateWeight(crash),
     position |-> <<ToNumber(crash.DEC_LONG), ToNumber(crash.DEC_LAT)>>]

RECURSIVE MapSeq(_, _, _)
MapSeq(Op(_, _), s, arg) ==
    IF s = <<>> THEN <<>> ELSE <<Op(Head(s), arg)>> \o MapSeq(Op, Tail(s), arg)

combinedData(crashes, flags) ==
    MapSeq(Enrich, SelectSeq(crashes, IsValid), FlagLookup(flags))

TimeRanges == {"all", "morning", "afternoon", "evening", "night"}
Severities == {"all", "fatal", "injury"}

\* TimeRangeTest with the morning range closed at 12.
TimeRangeTestInclusive(selectedTimeRange, d) ==
    IF selectedTimeRange = "all" THEN TRUE
    ELSE LET hour == d.HOUR_OF_DAY IN
         CASE selectedTimeRange = "morning"   -> JsGe(hour, 6) /\ JsLe(hour, 12)
           [] selectedTimeRange = "afternoon" -> JsGe(hour, 12) /\ JsLt(hour, 18)
           [] selectedTimeRange = "evening"   -> JsGe(hour, 18) /\ JsLt(hour, 24)
           [] selectedTimeRange = "night"     -> JsGe(hour, 0) /\ JsLt(hour, 6)
           [] OTHER                           -> TRUE

\* The first filter of filteredData.
TimeRangeTest(selectedTimeRange, d) ==
    IF selectedTimeRange = "all" THEN TRUE
    ELSE LET hour == d.HOUR_OF_DAY IN
         CASE selectedTimeRange = "morning"   -> JsGe(hour, 6) /\ JsLt(hour, 12)
           [] selectedTimeRange = "afternoon" -> JsGe(hour, 12) /\ JsLt(hour, 18)
           [] selectedTimeRange = "evening"   -> JsGe(hour, 18) /\ JsLt(hour, 24)
           [] selectedTimeRange = "night"     -> JsGe(hour, 0) /\ JsLt(hour, 6)
           [] OTHER                           -> TRUE

\* The second filter of filteredData.
SeverityTest(selectedSeverity, d) ==
    IF selectedSeverity = "all" THEN TRUE
    ELSE CASE selectedSeverity = "fatal"  -> JsGt(d.FATAL_COUNT, 0)
           [] selectedSeverity = "injury" -> JsGt(d.INJURY_COUNT, 0)
           [] OTHER                       -> TRUE

\* filteredData with the severity filter applied to data instead of chained.
filteredDataUnchained(data, selectedTimeRange, selectedSeverity) ==
    LET BySeverity(d) == SeverityTest(selectedSeverity, d)
    IN  SelectSeq(data, BySeverity)

\* useMemo over [data, selectedTimeRange, selectedSeverity].
filteredData(data, selectedTimeRange, selectedSeverity) ==
    LET ByTime(d) == TimeRangeTest(selectedTimeRange, d)
        BySeverity(d) == SeverityTest(selectedSeverity, d)
    IN  SelectSeq(SelectSeq(data, ByTime), BySeverity)

CrashMapInitial ==
    [data |-> <<>>, loading |-> TRUE, error |-> NoError,
     selectedTimeRange |-> "all", selectedSeverity |-> "all",
     filteredData |-> <<>>]

LoadDataInitial == [crash |-> "pending", flag |-> "pending", pc |-> "awaitAll"]
LoadDataIdle == [crash |-> "idle", flag |-> "idle", pc |-> "idle"]

\* A fetch of the Promise.all resolves with the file's rows.
CrashMapFetchResolves ==
    /\ scenario \in CrashMapScenarios
    /\ \/ /\ loadData.crash = "pending"
          /\ \E rows \in SeqsUpTo(CrashRowsOf(scenario), MaxCrashRows) :
                crashFile' = rows
          /\ loadData' = [loadData EXCEPT !.crash = "ok"]
          /\ UNCHANGED flagFile
       \/ /\ loadData.flag = "pending"
          /\ \E rows \in SeqsUpTo(FlagRowsOf(scenario), MaxFlagRows) :
                flagFile' = rows
          /\ loadData' = [loadData EXCEPT !.flag = "ok"]
          /\ UNCHANGED crashFile
    /\ UNCHANGED <<scenario, crashMap, analyticsPanel, crashStatistics, serviceVars>>

\* A fetch rejects: Promise.all rejects with it and the catch block runs,
\* unless the other fetch has rejected before.
CrashMapFetchFails ==
    /\ scenario \in CrashMapScenarios
    /\ \E f \in {"crash", "flag"} :
        /\ loadData[f] = "pending"
        /\ IF loadData.pc = "awaitAll"
           THEN /\ loadData' = [loadData EXCEPT ![f] = "failed", !.pc = "done"]
                /\ crashMap' = [crashMap EXCEPT !.error = RejectionMessage(f),
                                                !.loading = FALSE]
           ELSE /\ loadData' = [loadData EXCEPT ![f] = "failed"]
                /\ UNCHANGED crashMap
    /\ UNCHANGED <<scenario, crashFile, flagFile, analyticsPanel, crashStatistics, serviceVars>>

\* CrashMapLoadComplete without the Promise.all: the join runs as soon as the
\* crash response is in.
CrashMapLoadCompleteEarly ==
    /\ scenario \in CrashMapScenarios
    /\ loadData.pc = "awaitAll"
    /\ loadData.crash = "ok"
    /\ LET data == combinedData(crashFile, flagFile) IN
       crashMap' = [crashMap EXCEPT
                      !.data = data,
                      !.loading = FALSE,
                      !.filteredData =
                          filteredData(data, crashMap.selectedTimeRange,
                                       crashMap.selectedSeverity)]
    /\ loadData' = [loadData EXCEPT !.pc = "done"]
    /\ UNCHANGED <<scenario, crashFile, flagFile, analyticsPanel, crashStatistics, serviceVars>>

\* CrashMapLoadComplete appending the joined rows to the data already stored.
CrashMapLoadCompleteAppending ==
    /\ scenario \in CrashMapScenarios
    /\ loadData.pc = "awaitAll"
    /\ loadData.crash = "ok"
    /\ loadData.flag = "ok"
    /\ LET data == crashMap.data \o combinedData(crashFile, flagFile) IN
       crashMap' = [crashMap EXCEPT
                      !.data = data,
                      !.loading = FALSE,
                      !.filteredData =
                          filteredData(data, crashMap.selectedTimeRange,
                                       crashMap.selectedSeverity)]
    /\ loadData' = [loadData EXCEPT !.pc = "done"]
    /\ UNCHANGED <<scenario, crashFile, flagFile, analyticsPanel, crashStatistics, serviceVars>>

\* Both responses are in: read the texts, parse, join, setData, setLoading(false).
CrashMapLoadComplete ==
    /\ scenario \in CrashMapScenarios
    /\ loadData.pc = "awaitAll"
    /\ loadData.crash = "ok"
    /\ loadData.flag = "ok"
    /\ LET data == combinedData(crashFile, flagFile) IN
       crashMap' = [crashMap EXCEPT
                      !.data = data,
                      !.loading = FALSE,
                      !.filteredData =
                          filteredData(data, crashMap.selectedTimeRange,
                                       crashMap.selectedSeverity)]
    /\ loadData' = [loadData EXCEPT !.pc = "done"]
    /\ UNCHANGED <<scenario, crashFile, flagFile, analyticsPanel, crashStatistics, serviceVars>>

\* loadData runs a second time in the same component, over the files as they
\* are.  `first` keeps the enriched set the first run stored.
CrashMapReload ==
    /\ scenario = "CrashMapReload"
    /\ loadData.pc = "done"
    /\ "run" \notin DOMAIN loadData
    /\ crashMap.error = NoError
    /\ loadData' = [crash |-> "refetching", flag |-> "refetching", pc |-> "awaitAll",
                    run |-> 2, first |-> crashMap.data]
    /\ UNCHANGED <<scenario, crashFile, flagFile, crashMap, analyticsPanel,
                   crashStatistics, serviceVars>>

\* A fetch of the second run resolves with the same file.
CrashMapRefetchResolves ==
    /\ scenario = "CrashMapReload"
    /\ loadData.pc = "awaitAll"
    /\ \E f \in {"crash", "flag"} :
        /\ loadData[f] = "refetching"
        /\ loadData' = [loadData EXCEPT ![f] = "ok"]
    /\ UNCHANGED <<scenario, crashFile, flagFile, crashMap, analyticsPanel,
                   crashStatistics, serviceVars>>

\* A fetch of the second run rejects and the catch block runs; what becomes
\* of the other fetch is no longer observed.
CrashMapRefetchFails ==
    /\ scenario = "CrashMapReload"
    /\ loadData.pc = "awaitAll"
    /\ \E f \in {"crash", "flag"} :
        /\ loadData[f] = "refetching"
        /\ loadData' = [loadData EXCEPT ![f] = "failed", !.pc = "done"]
        /\ crashMap' = [crashMap EXCEPT !.error = RejectionMessage(f),
                                        !.loading = FALSE]
    /\ UNCHANGED <<scenario, crashFile, flagFile, analyticsPanel, crashStatistics,
                   serviceVars>>

setSelectedTimeRange ==
    /\ scenario = "CrashMapFilter"
    /\ \E value \in TimeRanges \ {crashMap.selectedTimeRange} :
        crashMap' = [crashMap EXCEPT
                       !.selectedTimeRange = value,
                       !.filteredData =
                           filteredData(crashMap.data, value, crashMap.selectedSeverity)]
    /\ UNCHANGED <<scenario, crashFile, flagFile, loadData, analyticsPanel, crashStatistics, serviceVars>>

setSelectedSeverity ==
    /\ scenario = "CrashMapFilter"
    /\ \E value \in Severities \ {crashMap.selectedSeverity} :
        crashMap' = [crashMap EXCEPT
                       !.selectedSeverity = value,
                       !.filteredData =
                           filteredData(crashMap.data, crashMap.selectedTimeRange, value)]
    /\ UNCHANGED <<scenario, crashFile, flagFile, loadData, analyticsPanel, crashStatistics, serviceVars>>

----------------------------------------------------------------------------
(* AnalyticsPanel: the four derived views of the crash rows.               *)

HourBuckets == 24
MonthsPerYear == 12
TopWeather == 10

\* crashes.filter(test).length
CountWhere(crashes, Test(_)) == Len(SelectSeq(crashes, Test))

TwoDigits(n) ==
    <<"00", "01", "02", "03", "04", "05", "06", "07", "08", "09", "10", "11",
      "12", "13", "14", "15", "16", "17", "18", "19", "20", "21", "22", "23">>[n + 1]

\* processTimeDistribution that converts the hour to a number before it
\* indexes the array, so that an empty hour counts as hour 0.
processTimeDistributionCoercing(crashes) ==
    [i \in 1..HourBuckets |->
        LET InHour(crash) ==
                /\ JsGe(crash.HOUR_OF_DAY, 0) /\ JsLt(crash.HOUR_OF_DAY, HourBuckets)
                /\ ToNumber(crash.HOUR_OF_DAY) = i - 1
        IN  [hour |-> TwoDigits(i - 1) \o ":00", crashes |-> CountWhere(crashes, InHour)]]

\* distribution[crash.HOUR_OF_DAY]++ reaches an element of the array only for
\* a number; for null or true it sets a property the map never visits.
processTimeDistribution(crashes) ==
    [i \in 1..HourBuckets |->
        LET InHour(crash) ==
                /\ JsGe(crash.HOUR_OF_DAY, 0) /\ JsLt(crash.HOUR_OF_DAY, HourBuckets)
                /\ crash.HOUR_OF_DAY = Num(i - 1)
        IN  [hour |-> TwoDigits(i - 1) \o ":00", crashes |-> CountWhere(crashes, InHour)]]

processSeverityDistribution(crashes) ==
    LET IsFatal(c) == JsGt(c.FATAL_COUNT, 0)
        IsInjury(c) == JsGt(c.INJURY_COUNT, 0) /\ JsStrictEq(c.FATAL_COUNT, 0)
        IsProperty(c) == JsStrictEq(c.FATAL_COUNT, 0) /\ JsStrictEq(c.INJURY_COUNT, 0)
    IN  <<[type |-> "fatal", count |-> CountWhere(crashes, IsFatal)],
          [type |-> "injury", count |-> CountWhere(crashes, IsInjury)],
          [type |-> "property", count |-> CountWhere(crashes, IsProperty)]>>

\* weatherMap[crash.WEATHER1] || 'Unknown'
\* String(Object.prototype[key]) for the keys of InheritedKeys.
InheritedLabels ==
    <<"function Object() { [native code] }", "function toString() { [native code] }">>

\* weatherMap[code] || 'Unknown': the key is looked up in the object literal
\* and then in Object.prototype, whose properties are truthy.
weatherMap(code) ==
    CASE code = Num(1)  -> "Clear"
      [] code = Num(2)  -> "Cloudy"
      [] code = Num(3)  -> "Rain"
      [] code = Num(4)  -> "Snow"
      [] code = Num(5)  -> "Sleet/Hail"
      [] code = Num(6)  -> "Fog"
      [] code = Num(7)  -> "Rain & Fog"
      [] code = Num(8)  -> "Snow & Fog"
      [] code = Num(98) -> "Other"
      [] code = Num(99) -> "Unknown"
      [] code.t = "string" /\ code.v \in DOMAIN InheritedKeys -> InheritedLabels[code.v]
      [] OTHER          -> "Unknown"

\* weatherCounts after the first i crashes: entries in insertion order.
RECURSIVE weatherCounts(_, _)
weatherCounts(crashes, i) ==
    IF i = 0 THEN <<>>
    ELSE LET prev == weatherCounts(crashes, i - 1)
             weather == weatherMap(crashes[i].WEATHER1)
         IN  IF \E k \in DOMAIN prev : prev[k].weather = weather
             THEN [k \in DOMAIN prev |->
                      IF prev[k].weather = weather
                      THEN [prev[k] EXCEPT !.count = @ + 1] ELSE prev[k]]
             ELSE Append(prev, [weather |-> weather, count |-> 1])

\* Array.prototype.sort with (a, b) => b.count - a.count: stable, descending.
RECURSIVE SortByCountDesc(_)
SortByCountDesc(s) ==
    IF s = <<>> THEN <<>>
    ELSE LET rest == SortByCountDesc(Tail(s))
             AtLeast(e) == e.count > Head(s).count
             Below(e) == ~(e.count > Head(s).count)
         IN  SelectSeq(rest, AtLeast) \o <<Head(s)>> \o SelectSeq(rest, Below)

processWeatherDistribution(crashes) ==
    LET sorted == SortByCountDesc(weatherCounts(crashes, Len(crashes)))
    IN  SubSeq(sorted, 1, IF Len(sorted) < TopWeather THEN Len(sorted) ELSE TopWeather)

MonthNames ==
    <<"Jan", "Feb", "Mar", "Apr", "May", "Jun", "Jul", "Aug", "Sep", "Oct", "Nov", "Dec">>

\* MonthlyStep adding the crash's counts instead of counting the crash.
MonthlyStepAddingCounts(monthlyData, crash) ==
    IF JsGe(crash.CRASH_MONTH, 1) /\ JsLe(crash.CRASH_MONTH, MonthsPerYear)
    THEN LET idx == ToNumber(crash.CRASH_MONTH) - 1 IN
         [monthlyData EXCEPT ![idx + 1] =
             [total |-> @.total + 1,
              fatal |-> @.fatal + OrZero(crash.FATAL_COUNT),
              injury |-> @.injury + OrZero(crash.INJURY_COUNT)]]
    ELSE monthlyData

\* MonthlyStep with fatal taking precedence over injury, as in the severity
\* distribution.
MonthlyStepExclusive(monthlyData, crash) ==
    IF JsGe(crash.CRASH_MONTH, 1) /\ JsLe(crash.CRASH_MONTH, MonthsPerYear)
    THEN LET idx == ToNumber(crash.CRASH_MONTH) - 1 IN
         [monthlyData EXCEPT ![idx + 1] =
             [total |-> @.total + 1,
              fatal |-> IF JsGt(crash.FATAL_COUNT, 0) THEN @.fatal + 1 ELSE @.fatal,
              injury |-> IF JsGt(crash.INJURY_COUNT, 0) /\ ~JsGt(crash.FATAL_COUNT, 0)
                         THEN @.injury + 1 ELSE @.injury]]
    ELSE monthlyData

\* The body of the forEach of processMonthlyTrends for one crash.
MonthlyStep(monthlyData, crash) ==
    IF JsGe(crash.CRASH_MONTH, 1) /\ JsLe(crash.CRASH_MONTH, MonthsPerYear)
    THEN LET idx == ToNumber(crash.CRASH_MONTH) - 1 IN
         [monthlyData EXCEPT ![idx + 1] =
             [total |-> @.total + 1,
              fatal |-> IF JsGt(crash.FATAL_COUNT, 0) THEN @.fatal + 1 ELSE @.fatal,
              injury |-> IF JsGt(crash.INJURY_COUNT, 0) THEN @.injury + 1 ELSE @.injury]]
    ELSE monthlyData

RECURSIVE monthlyData(_, _)
monthlyData(crashes, i) ==
    IF i = 0 THEN [m \in 1..MonthsPerYear |-> [total |-> 0, fatal |-> 0, injury |-> 0]]
    ELSE MonthlyStep(monthlyData(crashes, i - 1), crashes[i])

processMonthlyTrends(crashes) ==
    LET counts == monthlyData(crashes, Len(crashes)) IN
    [m \in 1..MonthsPerYear |->
        [month |-> MonthNames[m], total |-> counts[m].total,
         fatal |-> counts[m].fatal, injury |-> counts[m].injury]]

AnalyticsInitial ==
    [data |-> [timeDistribution |-> <<>>, severityDistribution |-> <<>>,
               weatherDistribution |-> <<>>, monthlyTrends |-> <<>>],
     loading |-> TRUE]

AnalyticsFetchResolves ==
    /\ scenario \in AnalyticsScenarios
    /\ \/ /\ loadData.crash = "pending"
          /\ \E rows \in CrashFilesOf(scenario) :
                crashFile' = rows
          /\ loadData' = [loadData EXCEPT !.crash = "ok"]
          /\ UNCHANGED flagFile
       \/ /\ loadData.flag = "pending"
          /\ \E rows \in SeqsUpTo(FlagRowsOf(scenario), MaxFlagRows) :
                flagFile' = rows
          /\ loadData' = [loadData EXCEPT !.flag = "ok"]
          /\ UNCHANGED crashFile
    /\ UNCHANGED <<scenario, crashMap, analyticsPanel, crashStatistics, serviceVars>>

\* The catch block logs and clears loading; the panel keeps no error state.
AnalyticsFetchFails ==
    /\ scenario \in AnalyticsScenarios
    /\ \E f \in {"crash", "flag"} :
        /\ loadData[f] = "pending"
        /\ IF loadData.pc = "awaitAll"
           THEN /\ loadData' = [loadData EXCEPT ![f] = "failed", !.pc = "done"]
                /\ analyticsPanel' = [analyticsPanel EXCEPT !.loading = FALSE]
           ELSE /\ loadData' = [loadData EXCEPT ![f] = "failed"]
                /\ UNCHANGED analyticsPanel
    /\ UNCHANGED <<scenario, crashFile, flagFile, crashMap, crashStatistics, serviceVars>>

\* AnalyticsLoadComplete publishing the hourly view before the other three.
AnalyticsLoadCompletePiecewise ==
    /\ scenario \in AnalyticsScenarios
    /\ loadData.pc = "awaitAll"
    /\ loadData.crash = "ok"
    /\ loadData.flag = "ok"
    /\ analyticsPanel' =
         [data |-> [analyticsPanel.data EXCEPT
                        !.timeDistribution = processTimeDistribution(crashFile)],
          loading |-> FALSE]
    /\ loadData' = [loadData EXCEPT !.pc = "done"]
    /\ UNCHANGED <<scenario, crashFile, flagFile, crashMap, crashStatistics, serviceVars>>

\* Both responses are in: parse, compute the four views, setData once.
AnalyticsLoadComplete ==
    /\ scenario \in AnalyticsScenarios
    /\ loadData.pc = "awaitAll"
    /\ loadData.crash = "ok"
    /\ loadData.flag = "ok"
    /\ analyticsPanel' =
         [data |-> [timeDistribution |-> processTimeDistribution(crashFile),
                    severityDistribution |-> processSeverityDistribution(crashFile),
                    weatherDistribution |-> processWeatherDistribution(crashFile),
                    monthlyTrends |-> processMonthlyTrends(crashFile)],
          loading |-> FALSE]
    /\ loadData' = [loadData EXCEPT !.pc = "done"]
    /\ UNCHANGED <<scenario, crashFile, flagFile, crashMap, crashStatistics, serviceVars>>

----------------------------------------------------------------------------
(* CrashStatistics: loadStats fetches three files and derives five totals. *)

StatFiles == {"CRASH_2023.csv", "VEHICLE_2023.csv", "PERSON_2023.csv"}

\* Rows of the three files as far as loadStats reads them: the two counts of
\* a crash, nothing of a vehicle, INJ_SEVERITY of a person.
StatsCrashRows ==
    {Row(Num(1), Num(41), Num(-77), Num(8), Num(1), f, i, Num(0), Num(1)) :
        f \in {Num(0), Num(1)}, i \in {Null, Num(2)}}
StatsVehicleRows == {[CRN |-> Num(1)]}
StatsPersonRows == {[INJ_SEVERITY |-> s] : s \in {Null, Num(0), Num(2)}}

StatsRowsOf(name) ==
    CASE name = "CRASH_2023.csv"   -> StatsCrashRows
      [] name = "VEHICLE_2023.csv" -> StatsVehicleRows
      [] name = "PERSON_2023.csv"  -> StatsPersonRows

\* The Error thrown for a response that is not ok.
NotOkMessage(name) == "Failed to fetch " \o name

StatsLoadError == "Failed to load crash statistics"

newStats(parsedData) ==
    LET crashes == parsedData["CRASH_2023.csv"]
        IsFatal(crash) == JsGt(crash.FATAL_COUNT, 0)
        IsInjury(crash) == JsGt(crash.INJURY_COUNT, 0)
        IsInjured(person) == JsGt(person.INJ_SEVERITY, 0)
    IN  [totalCrashes |-> Len(crashes),
         fatalCrashes |-> Len(SelectSeq(crashes, IsFatal)),
         injuryCrashes |-> Len(SelectSeq(crashes, IsInjury)),
         vehicleCount |-> Len(parsedData["VEHICLE_2023.csv"]),
         totalInjuries |-> Len(SelectSeq(parsedData["PERSON_2023.csv"], IsInjured))]

\* The catch block of loadStats: the thrown error is logged, a fixed text is stored.
loadStatsCatch(cs, thrown) ==
    [cs EXCEPT !.error = StatsLoadError, !.loading = FALSE]

StatsIdle ==
    [stats |-> [totalCrashes |-> 0, fatalCrashes |-> 0, injuryCrashes |-> 0,
                vehicleCount |-> 0, totalInjuries |-> 0],
     loading |-> TRUE, error |-> NoError,
     files |-> [name \in StatFiles |-> "idle"],
     contents |-> [name \in StatFiles |-> <<>>],
     pc |-> "idle", thrown |-> NoError, failed |-> "none"]

StatsInitial ==
    [StatsIdle EXCEPT !.files = [name \in StatFiles |-> "pending"], !.pc = "awaitAll"]

\* A file's response is ok and its text is read.
StatsFetchResolves ==
    /\ scenario = "CrashStatistics"
    /\ \E name \in StatFiles :
        /\ crashStatistics.files[name] = "pending"
        /\ \E rows \in SeqsUpTo(StatsRowsOf(name), MaxCrashRows) :
            crashStatistics' = [crashStatistics EXCEPT
                                  !.files[name] = "ok", !.contents[name] = rows]
    /\ UNCHANGED <<scenario, crashFile, flagFile, loadData, crashMap, analyticsPanel,
                   serviceVars>>

\* A file's promise rejects with `thrown`; the first rejection rejects the
\* Promise.all and runs the catch block.
StatsFileFails(name, thrown) ==
    /\ crashStatistics.files[name] = "pending"
    /\ crashStatistics' =
         IF crashStatistics.pc = "awaitAll"
         THEN [loadStatsCatch(crashStatistics, thrown) EXCEPT
                  !.files[name] = "failed", !.pc = "done",
                  !.thrown = thrown, !.failed = name]
         ELSE [crashStatistics EXCEPT !.files[name] = "failed"]

\* A file's response is not ok: the Error naming the file is thrown.
StatsFetchNotOk ==
    /\ scenario = "CrashStatistics"
    /\ \E name \in StatFiles : StatsFileFails(name, NotOkMessage(name))
    /\ UNCHANGED <<scenario, crashFile, flagFile, loadData, crashMap, analyticsPanel,
                   serviceVars>>

\* A file's fetch rejects.
StatsFetchRejects ==
    /\ scenario = "CrashStatistics"
    /\ \E name \in StatFiles : StatsFileFails(name, RejectionMessage(name))
    /\ UNCHANGED <<scenario, crashFile, flagFile, loadData, crashMap, analyticsPanel,
                   serviceVars>>

\* All three texts are in: parse, setStats(newStats), setLoading(false).
StatsLoadComplete ==
    /\ scenario = "CrashStatistics"
    /\ crashStatistics.pc = "awaitAll"
    /\ \A name \in StatFiles : crashStatistics.files[name] = "ok"
    /\ crashStatistics' = [crashStatistics EXCEPT
                             !.stats = newStats(crashStatistics.contents),
                             !.loading = FALSE,
                             !.pc = "done"]
    /\ UNCHANGED <<scenario, crashFile, flagFile, loadData, crashMap, analyticsPanel,
                   serviceVars>>

----------------------------------------------------------------------------
(* HotspotMap: fetchHotspots runs on mount and after every slider change.  *)

MaxHotspotRequests == 3

TimeWindowInitial == 24
MinCrashesInitial == 3
\* The two range inputs: min and max of each slider.
TimeWindowMin == 1
TimeWindowMax == 72
MinCrashesMin == 1
MinCrashesMax == 10

\* A range input that hands over the position as it is.
RangeValueUnclamped(min, max, position) == position

\* e.target.value of a range input: the position the user drags to, kept
\* within min and max by the input.
RangeValue(min, max, position) ==
    IF position < min THEN min ELSE IF position > max THEN max ELSE position

\* Positions the user drags the sliders to, the ends and beyond included.
TimeWindowChoices ==
    {RangeValue(TimeWindowMin, TimeWindowMax, p) : p \in {0, 1, 24, 72, 73}}
MinCrashesChoices ==
    {RangeValue(MinCrashesMin, MinCrashesMax, p) : p \in {0, 1, 3}}

\* Hotspot lists the service may answer with (risk_score in tenths).
Hotspot(score, count) == [risk_score |-> score, crash_count |-> count]
HotspotPayloads == {<<>>, <<Hotspot(8, 5)>>, <<Hotspot(8, 5), Hotspot(2, 2)>>}

NoFailure == [failed |-> FALSE]

\* fetchHotspots up to its await: setLoading(true) and the GET with the
\* current slider values.  `latest` records the answer to the request issued
\* last; `failure` the results as they were before a failed operation.
\* fetchHotspotsStart clearing the error as getPrediction does.
fetchHotspotsStartClearingError(hm) ==
    [hm EXCEPT
        !.loading = TRUE,
        !.error = NoError,
        !.issued = @ + 1,
        !.inflight = @ \cup {[id |-> hm.issued + 1,
                              time_window |-> hm.timeWindow,
                              min_crashes |-> hm.minCrashes]},
        !.latest = [status |-> "pending", hotspots |-> <<>>],
        !.failure = NoFailure]

fetchHotspotsStart(hm) ==
    [hm EXCEPT
        !.loading = TRUE,
        !.issued = @ + 1,
        !.inflight = @ \cup {[id |-> hm.issued + 1,
                              time_window |-> hm.timeWindow,
                              min_crashes |-> hm.minCrashes]},
        !.latest = [status |-> "pending", hotspots |-> <<>>],
        !.failure = NoFailure]

\* fetchHotspotsThen keeping only the hotspots with a high score and enough
\* crashes.
fetchHotspotsThenFiltering(hm, request, hotspots) ==
    LET Keep(h) == h.risk_score > 5 /\ h.crash_count >= hm.minCrashes IN
    [hm EXCEPT
        !.hotspots = SelectSeq(hotspots, Keep),
        !.received = hotspots,
        !.loading = FALSE,
        !.inflight = @ \ {request},
        !.latest = IF request.id = hm.issued
                   THEN [status |-> "ok", hotspots |-> hotspots] ELSE @,
        !.failure = NoFailure]

\* fetchHotspots after a response: setHotspots, then finally setLoading(false).
\* `received` is response.data.hotspots of the last response.
fetchHotspotsThen(hm, request, hotspots) ==
    [hm EXCEPT
        !.hotspots = hotspots,
        !.received = hotspots,
        !.loading = FALSE,
        !.inflight = @ \ {request},
        !.latest = IF request.id = hm.issued
                   THEN [status |-> "ok", hotspots |-> hotspots] ELSE @,
        !.failure = NoFailure]

\* fetchHotspots after a rejection: setError, then finally setLoading(false).
fetchHotspotsCatch(hm, request, message) ==
    [hm EXCEPT
        !.error = message,
        !.loading = FALSE,
        !.inflight = @ \ {request},
        !.latest = IF request.id = hm.issued
                   THEN [status |-> "failed", hotspots |-> <<>>] ELSE @,
        !.failure = [failed |-> TRUE, hotspots |-> hm.hotspots]]

\* The component after its mount effect has called fetchHotspots.
HotspotMapInitial ==
    fetchHotspotsStart(
        [hotspots |-> <<>>, loading |-> TRUE, error |-> NoError,
         timeWindow |-> TimeWindowInitial, minCrashes |-> MinCrashesInitial,
         inflight |-> {}, issued |-> 0,
         latest |-> [status |-> "pending", hotspots |-> <<>>],
         failure |-> NoFailure, received |-> <<>>])

HotspotMapIdle ==
    [hotspots |-> <<>>, loading |-> TRUE, error |-> NoError,
     timeWindow |-> TimeWindowInitial, minCrashes |-> MinCrashesInitial,
     inflight |-> {}, issued |-> 0,
     latest |-> [status |-> "pending", hotspots |-> <<>>],
     failure |-> NoFailure, received |-> <<>>]

setTimeWindow ==
    /\ scenario = "HotspotMap"
    /\ hotspotMap.issued < MaxHotspotRequests
    /\ \E value \in TimeWindowChoices \ {hotspotMap.timeWindow} :
        hotspotMap' = fetchHotspotsStart([hotspotMap EXCEPT !.timeWindow = value])
    /\ UNCHANGED <<scenario, dataVars, riskPanel, container>>

setMinCrashes ==
    /\ scenario = "HotspotMap"
    /\ hotspotMap.issued < MaxHotspotRequests
    /\ \E value \in MinCrashesChoices \ {hotspotMap.minCrashes} :
        hotspotMap' = fetchHotspotsStart([hotspotMap EXCEPT !.minCrashes = value])
    /\ UNCHANGED <<scenario, dataVars, riskPanel, container>>

HotspotResponse ==
    /\ scenario = "HotspotMap"
    /\ \E request \in hotspotMap.inflight, hotspots \in HotspotPayloads :
        hotspotMap' = fetchHotspotsThen(hotspotMap, request, hotspots)
    /\ UNCHANGED <<scenario, dataVars, riskPanel, container>>

HotspotFailure ==
    /\ scenario = "HotspotMap"
    /\ \E request \in hotspotMap.inflight :
        hotspotMap' = fetchHotspotsCatch(hotspotMap, request, FetchError)
    /\ UNCHANGED <<scenario, dataVars, riskPanel, container>>

----------------------------------------------------------------------------
(* The prediction service.  Its risk for a request is a function of the    *)
(* hour of the request's timestamp, different for every hour.              *)

HoursAhead == 24
HoursPerDay == 24

NoHour == -1

RiskAt(h) ==
    [risk_level |-> IF h \in {7, 8, 17} THEN "HIGH" ELSE "LOW",
     probability |-> h + 1,
     hour |-> NoHour]

\* A field the response body does not have reads as undefined.
Absent == "undefined"

\* A 200 response whose body lacks the risk level.
IncompleteRiskAt(h) == [RiskAt(h) EXCEPT !.risk_level = Absent]

\* The location the user selects on the map.
Locations == {[latitude |-> 41, longitude |-> -77]}

\* Hours of the clock at which the user acts.
ClockHours == {0, 9}

----------------------------------------------------------------------------
(* RiskPredictionPanel with getPrediction (the panel of the crash map).    *)

MaxPanelRequests == 2

\* getPrediction up to its await: setLoading(true), setError(null), the POST.
getPredictionStart(panel, hour) ==
    [panel EXCEPT
        !.loading = TRUE,
        !.error = NoError,
        !.issued = @ + 1,
        !.inflight = @ \cup {[id |-> panel.issued + 1,
                              latitude |-> panel.selectedLocation.latitude,
                              longitude |-> panel.selectedLocation.longitude,
                              weather |-> "1",
                              road_condition |-> "1",
                              hour |-> hour]},
        !.failure = NoFailure]

getPredictionThen(panel, request, data) ==
    [panel EXCEPT
        !.prediction = data,
        !.loading = FALSE,
        !.inflight = @ \ {request},
        !.failure = NoFailure]

getPredictionCatch(panel, request, message) ==
    [panel EXCEPT
        !.error = message,
        !.loading = FALSE,
        !.inflight = @ \ {request},
        !.failure = [failed |-> TRUE, prediction |-> panel.prediction]]

RiskPanelInitial ==
    [selectedLocation |-> Null, prediction |-> Null, loading |-> FALSE,
     error |-> NoError, inflight |-> {}, issued |-> 0, failure |-> NoFailure]

\* The map's handleClick gives the panel a new selectedLocation object and
\* the panel's effect calls getPrediction.
PanelSelectLocation ==
    /\ scenario = "RiskPredictionPanel"
    /\ riskPanel.issued < MaxPanelRequests
    /\ \E location \in Locations, hour \in ClockHours :
        riskPanel' = getPredictionStart(
                        [riskPanel EXCEPT !.selectedLocation = location], hour)
    /\ UNCHANGED <<scenario, dataVars, hotspotMap, container>>

PanelResponse ==
    /\ scenario = "RiskPredictionPanel"
    /\ \E request \in riskPanel.inflight :
        riskPanel' = getPredictionThen(riskPanel, request, RiskAt(request.hour))
    /\ UNCHANGED <<scenario, dataVars, hotspotMap, container>>

\* The service answers 200 with a body that lacks a required field.
PanelIncompleteResponse ==
    /\ scenario = "RiskPredictionPanel"
    /\ \E request \in riskPanel.inflight :
        riskPanel' = getPredictionThen(riskPanel, request, IncompleteRiskAt(request.hour))
    /\ UNCHANGED <<scenario, dataVars, hotspotMap, container>>

PanelFailure ==
    /\ scenario = "RiskPredictionPanel"
    /\ \E request \in riskPanel.inflight :
        riskPanel' = getPredictionCatch(riskPanel, request, FetchError)
    /\ UNCHANGED <<scenario, dataVars, hotspotMap, container>>

----------------------------------------------------------------------------
(* PredictionsContainer: fetchData on mount, handleLocationSelect on a     *)
(* selection.  One handleLocationSelect runs at a time.  `outcome` is how  *)
(* the last handleLocationSelect ended, `lastArrival` the request answered *)
(* last in its batch, `atStart` the results and the clock hour when it   *)
(* was called.                                                             *)

MaxSelects == 2
ArrivalWindow == 1

NoHandler ==
    [pc |-> "idle", location |-> Null, hour |-> NoHour,
     timestamps |-> <<>>, results |-> <<>>, pending |-> {}]

ContainerInitial ==
    [hotspots |-> <<>>, predictions |-> <<>>, selectedLocation |-> Null,
     loading |-> TRUE, error |-> NoError,
     fetchData |-> [pc |-> "getHotspots", hour |-> NoHour],
     handler |-> NoHandler, outcome |-> "none", lastArrival |-> 0, selects |-> 0,
     atStart |-> Null, failure |-> NoFailure, received |-> <<>>]

ContainerIdle == [ContainerInitial EXCEPT !.fetchData = [pc |-> "idle", hour |-> NoHour]]

\* What the component renders: the spinner, the error box, or the map and
\* the prediction panel.
Render(c) ==
    IF c.loading THEN {"spinner"}
    ELSE IF c.error # NoError THEN {"error"}
    ELSE {"HotspotMap", "RiskPredictionPanel"}

\* HourAfter reading the hours that were set, without the wrap at midnight.
HourAfterUnwrapped(hour, i) == hour + i

\* getHours() of a Date whose hours were set to hour + i.
HourAfter(hour, i) == (hour + i) % HoursPerDay

\* The scenarios that follow PredictionsContainer.  ContainerLoad follows the
\* loading flag: one clock hour and one hotspot list are enough for it.
ContainerScenarios == {"PredictionsContainer", "ContainerLoad"}
ClockHoursOf(s) == IF s = "ContainerLoad" THEN {9} ELSE ClockHours
HotspotPayloadsOf(s) ==
    IF s = "ContainerLoad" THEN {<<Hotspot(8, 5)>>} ELSE HotspotPayloads

\* fetchData: the hotspots arrive, setHotspots, and the risk request for the
\* default location goes out.
ContainerHotspotsResponse ==
    /\ scenario \in ContainerScenarios
    /\ container.fetchData.pc = "getHotspots"
    /\ \E hotspots \in HotspotPayloadsOf(scenario), now \in ClockHoursOf(scenario) :
        container' = [container EXCEPT
                        !.hotspots = hotspots,
                        !.received = hotspots,
                        !.fetchData = [pc |-> "postRisk", hour |-> now]]
    /\ UNCHANGED <<scenario, dataVars, hotspotMap, riskPanel>>

\* fetchData: the risk arrives, setPredictions([data]), setLoading(false).
ContainerRiskResponse ==
    /\ scenario \in ContainerScenarios
    /\ container.fetchData.pc = "postRisk"
    /\ container' = [container EXCEPT
                        !.predictions = <<RiskAt(container.fetchData.hour)>>,
                        !.loading = FALSE,
                        !.fetchData = [pc |-> "done", hour |-> NoHour]]
    /\ UNCHANGED <<scenario, dataVars, hotspotMap, riskPanel>>

\* fetchData: either request rejects, setError, setLoading(false).
ContainerFetchDataFailure ==
    /\ scenario \in ContainerScenarios
    /\ container.fetchData.pc \in {"getHotspots", "postRisk"}
    /\ container' = [container EXCEPT
                        !.error = FetchError,
                        !.loading = FALSE,
                        !.fetchData = [pc |-> "failed", hour |-> NoHour]]
    /\ UNCHANGED <<scenario, dataVars, hotspotMap, riskPanel>>

\* handleLocationSelect showing the spinner while it runs.
handleLocationSelectWithSpinner ==
    /\ scenario \in ContainerScenarios
    /\ "HotspotMap" \in Render(container)
    /\ container.handler.pc = "idle"
    /\ container.selects < MaxSelects
    /\ \E location \in Locations, now \in ClockHoursOf(scenario) :
        container' = [container EXCEPT
                        !.loading = TRUE,
                        !.handler = [NoHandler EXCEPT !.pc = "point",
                                                      !.location = location,
                                                      !.hour = now],
                        !.selects = @ + 1,
                        !.outcome = "none",
                        !.lastArrival = 0,
                        !.atStart = [selectedLocation |-> container.selectedLocation,
                                     predictions |-> container.predictions,
                                     hour |-> now],
                        !.failure = NoFailure]
    /\ UNCHANGED <<scenario, dataVars, hotspotMap, riskPanel>>

\* handleLocationSelect is the map's onLocationSelect: it can be called while
\* the map is rendered.  It posts the risk request for the location.
handleLocationSelect ==
    /\ scenario \in ContainerScenarios
    /\ "HotspotMap" \in Render(container)
    /\ container.handler.pc = "idle"
    /\ container.selects < MaxSelects
    /\ \E location \in Locations, now \in ClockHoursOf(scenario) :
        container' = [container EXCEPT
                        !.handler = [NoHandler EXCEPT !.pc = "point",
                                                      !.location = location,
                                                      !.hour = now],
                        !.selects = @ + 1,
                        !.outcome = "none",
                        !.lastArrival = 0,
                        !.atStart = [selectedLocation |-> container.selectedLocation,
                                     predictions |-> container.predictions,
                                     hour |-> now],
                        !.failure = NoFailure]
    /\ UNCHANGED <<scenario, dataVars, hotspotMap, riskPanel>>

\* { ...location, ...response.data }
Merge(location, data) ==
    [latitude |-> location.latitude, longitude |-> location.longitude,
     risk_level |-> data.risk_level, probability |-> data.probability,
     hour |-> data.hour]

\* HourTag with the position in the batch as the hour.
HourTagByIndex(timestamp, i) == i

\* The hour tag of element i of the batch, with the element's own timestamp.
HourTag(timestamp, i) == timestamp

\* What the callback of element i returns: { ...hourResponse.data, hour }.
HourlyPrediction(data, timestamp, i) == [data EXCEPT !.hour = HourTag(timestamp, i)]

\* The point risk arrives: setSelectedLocation, then the 24 hourly requests
\* go out, each with its own timestamp of now + i hours (the clock is in the
\* hour in which the handler was called).
ContainerPointResponse ==
    /\ scenario \in ContainerScenarios
    /\ container.handler.pc = "point"
    /\ LET now == container.handler.hour IN
        container' = [container EXCEPT
            !.selectedLocation =
                Merge(container.handler.location, RiskAt(container.handler.hour)),
            !.handler = [@ EXCEPT
                !.pc = "batch",
                !.timestamps = [k \in 1..HoursAhead |-> HourAfter(now, k - 1)],
                !.results = [k \in 1..HoursAhead |-> Null],
                !.pending = 1..HoursAhead]]
    /\ UNCHANGED <<scenario, dataVars, hotspotMap, riskPanel>>

\* handleLocationSelectCatch keeping the hourly answers that had arrived.
handleLocationSelectCatchKeepingArrived(c, message, stage) ==
    [c EXCEPT
        !.error = message,
        !.predictions = SelectSeq(c.handler.results, LAMBDA r : r # Null),
        !.handler = NoHandler,
        !.outcome = "failed",
        !.failure = [failed |-> TRUE, stage |-> stage,
                     selectedLocation |-> c.atStart.selectedLocation,
                     predictions |-> c.atStart.predictions]]

\* The catch block of handleLocationSelect.
handleLocationSelectCatch(c, message, stage) ==
    [c EXCEPT
        !.error = message,
        !.handler = NoHandler,
        !.outcome = "failed",
        !.failure = [failed |-> TRUE, stage |-> stage,
                     selectedLocation |-> c.atStart.selectedLocation,
                     predictions |-> c.atStart.predictions]]

ContainerPointFailure ==
    /\ scenario \in ContainerScenarios
    /\ container.handler.pc = "point"
    /\ container' = handleLocationSelectCatch(container, FetchError, "point")
    /\ UNCHANGED <<scenario, dataVars, hotspotMap, riskPanel>>

\* Responses arrive in any order in which fewer than ArrivalWindow pending
\* requests are before, or after, the one that is answered: in dispatch
\* order, in reverse order, and in any mixture of the two.
MayArrive(k, pending) ==
    /\ k \in pending
    /\ \/ Cardinality({j \in pending : j < k}) < ArrivalWindow
       \/ Cardinality({j \in pending : j > k}) < ArrivalWindow

\* One hourly response arrives; with the last one Promise.all resolves and
\* setPredictions stores the array, in the order of the requests.
ContainerHourlyResponse ==
    /\ scenario \in ContainerScenarios
    /\ container.handler.pc = "batch"
    /\ \E k \in container.handler.pending :
        /\ MayArrive(k, container.handler.pending)
        /\ LET h == container.handler
               results == [h.results EXCEPT ![k] =
                              HourlyPrediction(RiskAt(h.timestamps[k]), h.timestamps[k], k - 1)]
           IN  IF h.pending = {k}
               THEN container' = [container EXCEPT
                                    !.predictions = results,
                                    !.handler = NoHandler,
                                    !.outcome = "ok",
                                    !.lastArrival = k]
               ELSE container' = [container EXCEPT
                                    !.handler = [@ EXCEPT !.results = results,
                                                          !.pending = @ \ {k}]]
    /\ UNCHANGED <<scenario, dataVars, hotspotMap, riskPanel>>

\* One hourly request rejects: Promise.all rejects and the catch block runs.
ContainerHourlyFailure ==
    /\ scenario \in ContainerScenarios
    /\ container.handler.pc = "batch"
    /\ \E k \in container.handler.pending :
        /\ MayArrive(k, container.handler.pending)
        /\ container' = handleLocationSelectCatch(container, FetchError, "batch")
    /\ UNCHANGED <<scenario, dataVars, hotspotMap, riskPanel>>

\* hourlyRiskData of the prediction panel: for each hour the first
\* prediction tagged with it, or the default.
hourlyRiskData(predictions) ==
    [i \in 1..HoursPerDay |->
        LET hour == i - 1
            found == {k \in DOMAIN predictions : predictions[k].hour = hour}
            risk == IF found # {}
                    THEN predictions[CHOOSE k \in found : \A j \in found : k <= j]
                    ELSE [risk_level |-> "LOW", probability |-> 0]
        IN  [hour |-> ToString(hour) \o ":00",
             risk |-> risk.probability * 100,
             riskLevel |-> risk.risk_level]]

----------------------------------------------------------------------------
(* Specifications: one per scenario.                                       *)

InitData(s) ==
    /\ scenario = s
    /\ crashFile = <<>>
    /\ flagFile = <<>>
    /\ loadData = LoadDataInitial
    /\ crashMap = CrashMapInitial
    /\ analyticsPanel = AnalyticsInitial
    /\ crashStatistics = StatsIdle
    /\ hotspotMap = HotspotMapIdle
    /\ riskPanel = RiskPanelInitial
    /\ container = ContainerIdle

InitCrashMapLoad == InitData("CrashMapLoad")
InitCrashMapFilter == InitData("CrashMapFilter")
InitAnalytics == InitData("AnalyticsPanel")

InitService(s) ==
    /\ scenario = s
    /\ crashFile = <<>>
    /\ flagFile = <<>>
    /\ loadData = LoadDataIdle
    /\ crashMap = CrashMapInitial
    /\ analyticsPanel = AnalyticsInitial
    /\ crashStatistics = StatsIdle
    /\ hotspotMap = IF s = "HotspotMap" THEN HotspotMapInitial ELSE HotspotMapIdle
    /\ riskPanel = RiskPanelInitial
    /\ container = IF s \in ContainerScenarios THEN ContainerInitial ELSE ContainerIdle

InitHotspotMap == InitService("HotspotMap")
InitRiskPanel == InitService("RiskPredictionPanel")
InitContainer == InitService("PredictionsContainer")

CrashMapLoadNext ==
    \/ CrashMapFetchResolves
    \/ CrashMapFetchFails
    \/ CrashMapLoadComplete

CrashMapFilterNext ==
    \/ CrashMapFetchResolves
    \/ CrashMapFetchFails
    \/ CrashMapLoadComplete
    \/ setSelectedTimeRange
    \/ setSelectedSeverity

AnalyticsNext ==
    \/ AnalyticsFetchResolves
    \/ AnalyticsFetchFails
    \/ AnalyticsLoadComplete

HotspotMapNext ==
    \/ setTimeWindow
    \/ setMinCrashes
    \/ HotspotResponse
    \/ HotspotFailure

RiskPanelNext ==
    \/ PanelSelectLocation
    \/ PanelResponse
    \/ PanelIncompleteResponse
    \/ PanelFailure

ContainerNext ==
    \/ ContainerHotspotsResponse
    \/ ContainerRiskResponse
    \/ ContainerFetchDataFailure
    \/ handleLocationSelect
    \/ ContainerPointResponse
    \/ ContainerPointFailure
    \/ ContainerHourlyResponse
    \/ ContainerHourlyFailure

SpecCrashMapLoad == InitCrashMapLoad /\ [][CrashMapLoadNext]_vars
SpecCrashMapFilter == InitCrashMapFilter /\ [][CrashMapFilterNext]_vars
SpecAnalytics == InitAnalytics /\ [][AnalyticsNext]_vars

\* AnalyticsPanel over datasets that differ in the weather code.
InitWeather == InitData("AnalyticsWeather")
SpecWeather == InitWeather /\ [][AnalyticsNext]_vars
SpecHotspotMap == InitHotspotMap /\ [][HotspotMapNext]_vars
SpecRiskPanel == InitRiskPanel /\ [][RiskPanelNext]_vars
SpecContainer == InitContainer /\ [][ContainerNext]_vars

\* The three clients of the prediction service.
InitServices == InitHotspotMap \/ InitRiskPanel \/ InitContainer
ServicesNext == HotspotMapNext \/ RiskPanelNext \/ ContainerNext
SpecServices == InitServices /\ [][ServicesNext]_vars

\* PredictionsContainer when every request that was issued is answered or
\* fails: the pending await of fetchData and of handleLocationSelect resumes.
ContainerFairness ==
    /\ WF_vars(ContainerHotspotsResponse \/ ContainerRiskResponse
                  \/ ContainerFetchDataFailure)
    /\ WF_vars(ContainerPointResponse \/ ContainerPointFailure)
    /\ WF_vars(ContainerHourlyResponse \/ ContainerHourlyFailure)
InitContainerLoad == InitService("ContainerLoad")
SpecContainerLoad == InitContainerLoad /\ [][ContainerNext]_vars /\ ContainerFairness

\* The two components that call the service with a loading and an error flag.
InitClients == InitHotspotMap \/ InitRiskPanel
ClientsNext == HotspotMapNext \/ RiskPanelNext
SpecClients == InitClients /\ [][ClientsNext]_vars

\* CrashMap whose load runs twice.
CrashMapReloadNext ==
    \/ CrashMapFetchResolves
    \/ CrashMapFetchFails
    \/ CrashMapLoadComplete
    \/ CrashMapReload
    \/ CrashMapRefetchResolves
    \/ CrashMapRefetchFails

InitCrashMapReload == InitData("CrashMapReload")
SpecCrashMapReload == InitCrashMapReload /\ [][CrashMapReloadNext]_vars

InitStats ==
    /\ scenario = "CrashStatistics"
    /\ crashFile = <<>>
    /\ flagFile = <<>>
    /\ loadData = LoadDataIdle
    /\ crashMap = CrashMapInitial
    /\ analyticsPanel = AnalyticsInitial
    /\ crashStatistics = StatsInitial
    /\ hotspotMap = HotspotMapIdle
    /\ riskPanel = RiskPanelInitial
    /\ container = ContainerIdle

StatsNext ==
    \/ StatsFetchResolves
    \/ StatsFetchNotOk
    \/ StatsFetchRejects
    \/ StatsLoadComplete

SpecStats == InitStats /\ [][StatsNext]_vars

\* The components that load dataset files, with their failures.
InitLoadErrors == InitCrashMapLoad \/ InitStats
LoadErrorsNext == CrashMapLoadNext \/ StatsNext
SpecLoadErrors == InitLoadErrors /\ [][LoadErrorsNext]_vars

\* The two components that load the crash and flag files.
InitLoads == InitCrashMapLoad \/ InitAnalytics
LoadsNext == CrashMapLoadNext \/ AnalyticsNext
SpecLoads == InitLoads /\ [][LoadsNext]_vars

Init == InitCrashMapLoad \/ InitCrashMapFilter \/ InitAnalytics \/ InitStats \/ InitServices
Next == CrashMapFilterNext \/ AnalyticsNext \/ StatsNext \/ ServicesNext
Spec == Init /\ [][Next]_vars

----------------------------------------------------------------------------
(* Properties of the CrashMap load (join and validity filter).             *)

CrashMapLoaded ==
    /\ scenario \in CrashMapScenarios
    /\ loadData.pc = "done"
    /\ loadData.crash = "ok"
    /\ loadData.flag = "ok"

\* C2: every enriched record whose CRN occurs in the flag dataset carries a
\* flag row of that CRN as its flags, and every other enriched record carries
\* the empty object.
C2_JoinCarriesMatchingFlagRow ==
    CrashMapLoaded =>
        \A k \in DOMAIN crashMap.data :
            LET e == crashMap.data[k]
                matches == {i \in DOMAIN flagFile : flagFile[i].CRN = e.CRN}
            IN  IF matches # {}
                THEN \E i \in matches : e.flags = flagFile[i]
                ELSE e.flags = EmptyObject

IsNumber(x) == x.t = "number"

\* C3: every enriched record has a number in both DEC_LAT and DEC_LONG, and
\* no source row with a missing or non-numeric coordinate is in the enriched
\* set (the set is no larger than the number of rows with two numbers).
C3_EnrichedCoordinatesNumeric ==
    CrashMapLoaded =>
        LET BothNumeric(row) == IsNumber(row.DEC_LAT) /\ IsNumber(row.DEC_LONG) IN
        /\ \A k \in DOMAIN crashMap.data : BothNumeric(crashMap.data[k])
        /\ Len(crashMap.data) <= Len(SelectSeq(crashFile, BothNumeric))

----------------------------------------------------------------------------
(* Properties of the CrashMap filter.                                      *)

DayRanges == {"morning", "afternoon", "evening", "night"}

HasValidHour(d) == IsNumber(d.HOUR_OF_DAY) /\ d.HOUR_OF_DAY.v \in 0..23

InHours(d, lo, hi) ==
    /\ d.HOUR_OF_DAY.t \in {"number", "null"}
    /\ d.HOUR_OF_DAY.v \in lo..hi

TimePredicate(range, d) ==
    \/ range = "all"
    \/ range = "morning" /\ InHours(d, 6, 11)
    \/ range = "afternoon" /\ InHours(d, 12, 17)
    \/ range = "evening" /\ InHours(d, 18, 23)
    \/ range = "night" /\ InHours(d, 0, 5)

SeverityPredicate(severity, d) ==
    \/ severity = "all"
    \/ severity = "fatal" /\ IsNumber(d.FATAL_COUNT) /\ d.FATAL_COUNT.v > 0
    \/ severity = "injury" /\ IsNumber(d.INJURY_COUNT) /\ d.INJURY_COUNT.v > 0

\* C5: for every pair of selectors, filteredData is exactly the enriched
\* records, in order, that satisfy the time-range predicate and the severity
\* predicate; it is a subsequence of the enriched set, and the whole enriched
\* set when both selectors are 'all'.
C5_FilteredDataIsConjunction ==
    LET Keep(d) == /\ TimePredicate(crashMap.selectedTimeRange, d)
                   /\ SeverityPredicate(crashMap.selectedSeverity, d)
    IN  /\ crashMap.filteredData = SelectSeq(crashMap.data, Keep)
        /\ \A k \in DOMAIN crashMap.filteredData :
              \E j \in DOMAIN crashMap.data : crashMap.data[j] = crashMap.filteredData[k]
        /\ (crashMap.selectedTimeRange = "all" /\ crashMap.selectedSeverity = "all")
              => crashMap.filteredData = crashMap.data

C5_Witness ==
    /\ CrashMapLoaded
    /\ crashMap.selectedTimeRange = "afternoon"
    /\ crashMap.selectedSeverity = "injury"
    /\ Len(crashMap.data) = 2
    /\ Len(crashMap.filteredData) = 1
    /\ \E k \in DOMAIN crashMap.data :
          /\ crashMap.data[k].HOUR_OF_DAY = Num(12)
          /\ crashMap.data[k].INJURY_COUNT = Num(0)

----------------------------------------------------------------------------
(* Properties of the AnalyticsPanel views.                                 *)

AnalyticsLoaded ==
    /\ scenario = "AnalyticsPanel"
    /\ loadData.pc = "done"
    /\ loadData.crash = "ok"
    /\ loadData.flag = "ok"

\* C1: the fatal, injury and property counts of the severity distribution add
\* up to the number of rows of the crash dataset.
C1_SeverityCountsSumToTotal ==
    AnalyticsLoaded =>
        LET sev == analyticsPanel.data.severityDistribution IN
        sev[1].count + sev[2].count + sev[3].count = Len(crashFile)

\* C6: in each of the 12 month buckets, fatal <= total and injury <= total.
C6_MonthlyFatalInjuryWithinTotal ==
    AnalyticsLoaded =>
        /\ Len(analyticsPanel.data.monthlyTrends) = MonthsPerYear
        /\ \A m \in 1..MonthsPerYear :
              LET b == analyticsPanel.data.monthlyTrends[m] IN
              b.fatal <= b.total /\ b.injury <= b.total

C6_Witness ==
    /\ AnalyticsLoaded
    /\ \E m \in 1..MonthsPerYear :
          LET b == analyticsPanel.data.monthlyTrends[m] IN
          b.total = 2 /\ b.fatal = 1 /\ b.injury = 2

----------------------------------------------------------------------------
(* Properties of the prediction and hotspot clients.                       *)

\* C7 as stated: after the batch the stored array is indexed by hour,
\* predictions[h].hour = h for every h in 0..23.
C7_PredictionsIndexedByHour ==
    (scenario = "PredictionsContainer" /\ container.outcome = "ok") =>
        /\ Len(container.predictions) = HoursAhead
        /\ \A h \in 0..(HoursPerDay - 1) : container.predictions[h + 1].hour = h

\* C7 amended: after the batch, whatever the order of arrival, every hour h
\* in 0..23 tags exactly one stored prediction, that prediction is the answer
\* to the request whose timestamp had hour h, and hourlyRiskData shows it at
\* hour h.
C7_EveryHourFindsItsOwnResponse ==
    (scenario = "PredictionsContainer" /\ container.outcome = "ok") =>
        /\ Len(container.predictions) = HoursAhead
        /\ \A h \in 0..(HoursPerDay - 1) :
              LET tagged == {k \in DOMAIN container.predictions :
                                container.predictions[k].hour = h}
                  shown == hourlyRiskData(container.predictions)[h + 1]
              IN  /\ Cardinality(tagged) = 1
                  /\ \A k \in tagged :
                        container.predictions[k] = [RiskAt(h) EXCEPT !.hour = h]
                  /\ shown.risk = RiskAt(h).probability * 100
                  /\ shown.riskLevel = RiskAt(h).risk_level

\* The batch was dispatched in hour 9 and its first request was answered last.
C7_Witness ==
    /\ scenario = "PredictionsContainer"
    /\ container.outcome = "ok"
    /\ container.lastArrival = 1
    /\ container.predictions[1].hour = 9
    /\ container.predictions[HoursAhead].hour = 8

\* C8: once no hotspot request is in flight and the request issued last was
\* answered, the stored hotspots are the answer to that request.
C8_LastIssuedRequestWins ==
    (/\ scenario = "HotspotMap"
     /\ hotspotMap.inflight = {}
     /\ hotspotMap.latest.status = "ok")
        => hotspotMap.hotspots = hotspotMap.latest.hotspots

\* C9: when a request of handleLocationSelect fails after a successful
\* initial load, the error is shown and the map and the prediction panel are
\* still rendered.
C9_FailureKeepsResultsVisible ==
    (/\ scenario = "PredictionsContainer"
     /\ container.fetchData.pc = "done"
     /\ container.outcome = "failed")
        => /\ "error" \in Render(container)
           /\ "HotspotMap" \in Render(container)
           /\ "RiskPredictionPanel" \in Render(container)

\* C10: a failed fetchHotspots leaves hotspots, a failed
\* getPrediction leaves prediction, and a failed handleLocationSelect leaves
\* selectedLocation and predictions as they were.
C10_FailedOperationLeavesResults ==
    /\ hotspotMap.failure.failed =>
          hotspotMap.hotspots = hotspotMap.failure.hotspots
    /\ riskPanel.failure.failed =>
          riskPanel.prediction = riskPanel.failure.prediction
    /\ container.failure.failed =>
          /\ container.predictions = container.failure.predictions
          /\ container.selectedLocation = container.failure.selectedLocation

----------------------------------------------------------------------------
(* Properties of the dataset loads.                                        *)

BothFetchesCompleted == loadData.crash = "ok" /\ loadData.flag = "ok"

\* setData has run in CrashMap: loading is cleared without an error.
CrashMapPublished ==
    \/ crashMap.data # CrashMapInitial.data
    \/ ~crashMap.loading /\ crashMap.error = NoError

AnalyticsPublished == analyticsPanel.data # AnalyticsInitial.data

\* C11: the two fetches start together, and an enriched dataset or an
\* aggregate view is published only when both fetches have completed, never
\* while one is outstanding or has failed.
C11_JoinAfterBothFetches ==
    /\ loadData.pc = "awaitAll" =>
          /\ loadData.crash \in {"pending", "ok"}
          /\ loadData.flag \in {"pending", "ok"}
    /\ CrashMapPublished => BothFetchesCompleted
    /\ AnalyticsPublished => BothFetchesCompleted

\* The enriched dataset is published after both files arrived with rows.
C11_Witness ==
    /\ scenario = "CrashMapLoad"
    /\ CrashMapPublished
    /\ Len(crashMap.data) = MaxCrashRows
    /\ Len(flagFile) = MaxFlagRows

SecondRunDone == "run" \in DOMAIN loadData /\ loadData.pc = "done"

\* C14: after loadData has run twice over the same crash and flag files, the
\* enriched set is the one the first run stored (same records, same order):
\* the second run replaces the data and neither merges nor appends.
C14_ReloadLeavesSameEnrichedSet ==
    SecondRunDone =>
        /\ crashMap.data = loadData.first
        /\ crashMap.data = combinedData(crashFile, flagFile)

\* The second run completed over two valid crash rows, one with a flag row.
C14_Witness ==
    /\ SecondRunDone
    /\ loadData.crash = "ok" /\ loadData.flag = "ok"
    /\ Len(crashMap.data) = MaxCrashRows
    /\ \E i \in DOMAIN crashMap.data : crashMap.data[i].flags # EmptyObject

\* C12: when a dataset fetch of a load fails, the error state the component
\* ends in identifies the dataset: it differs from the error state the
\* failure of any other dataset of the load would have left.
C12_ErrorIdentifiesFailedDataset ==
    /\ \A f \in {"crash", "flag"} :
          (/\ scenario = "CrashMapLoad"
           /\ loadData[f] = "failed"
           /\ \A g \in {"crash", "flag"} \ {f} : loadData[g] # "failed")
              => \A g \in {"crash", "flag"} \ {f} :
                    crashMap.error # RejectionMessage(g)
    /\ (scenario = "CrashStatistics" /\ crashStatistics.failed # "none") =>
          \A g \in StatFiles \ {crashStatistics.failed} :
             \A thrown \in {NotOkMessage(g), RejectionMessage(g)} :
                crashStatistics.error # loadStatsCatch(crashStatistics, thrown).error

----------------------------------------------------------------------------
(* Properties of the requests and responses of the prediction clients.     *)

HasRequiredFields(data) == data.risk_level # Absent

\* C13: a response that lacks a required field is treated as a failure:
\* the prediction RiskPredictionPanel stores to render is never such a
\* payload.
C13_IncompletePayloadFailsClosed ==
    (scenario = "RiskPredictionPanel" /\ riskPanel.prediction # Null) =>
        HasRequiredFields(riskPanel.prediction)

\* C17: every hotspot request carries time_window in 1..72 and
\* min_crashes >= 1, whatever the sliders were moved to.
C17_HotspotRequestWithinRange ==
    \A request \in hotspotMap.inflight :
        /\ request.time_window \in 1..72
        /\ request.min_crashes >= 1

\* Both sliders were moved to an end and the request for them is in flight.
C17_Witness ==
    /\ scenario = "HotspotMap"
    /\ \E request \in hotspotMap.inflight :
          /\ request.id = MaxHotspotRequests
          /\ request.time_window = 72
          /\ request.min_crashes = 1

\* C18: a risk request for a selected location, for which the user chose no
\* weather and no road condition, carries neither code.
C18_NoConditionCodesInvented ==
    \A request \in riskPanel.inflight :
        /\ request.weather = Absent
        /\ request.road_condition = Absent

\* C15: after a successful fetch the stored hotspots are the list of the
\* response, element for element and in its order, in HotspotMap and in
\* PredictionsContainer.
C15_HotspotsStoredVerbatim ==
    /\ hotspotMap.hotspots = hotspotMap.received
    /\ container.hotspots = container.received

\* HotspotMap stores a list with a low score and a hotspot below min_crashes.
C15_Witness ==
    /\ scenario = "HotspotMap"
    /\ hotspotMap.inflight = {}
    /\ hotspotMap.minCrashes = MinCrashesInitial
    /\ hotspotMap.hotspots = <<Hotspot(8, 5), Hotspot(2, 2)>>

----------------------------------------------------------------------------
(* Properties of the views of AnalyticsPanel.                              *)

\* The positions of the crashes of the file whose HOUR_OF_DAY is the number h.
CrashesAtHour(h) == {i \in DOMAIN crashFile : crashFile[i].HOUR_OF_DAY = Num(h)}

\* C16: the hourly view has 24 entries in the order of the hours 0 to 23;
\* entry h counts the crashes whose HOUR_OF_DAY is h, 0 when there is none,
\* and a crash with an absent or out-of-range hour is counted in no entry.
C16_HourlyViewCountsEachHour ==
    AnalyticsLoaded =>
        LET view == analyticsPanel.data.timeDistribution IN
        /\ Len(view) = HourBuckets
        /\ \A h \in 0..(HourBuckets - 1) :
              /\ view[h + 1].hour = TwoDigits(h) \o ":00"
              /\ view[h + 1].crashes = Cardinality(CrashesAtHour(h))

\* A file with a crash at hour 23 and a crash without hour: one entry is 1.
C16_Witness ==
    /\ AnalyticsLoaded
    /\ Len(crashFile) = 2
    /\ \E i \in DOMAIN crashFile : crashFile[i].HOUR_OF_DAY = Null
    /\ analyticsPanel.data.timeDistribution[HourBuckets].crashes = 1
    /\ analyticsPanel.data.timeDistribution[1].crashes = 0

ViewsOf(crashes) ==
    [timeDistribution |-> processTimeDistribution(crashes),
     severityDistribution |-> processSeverityDistribution(crashes),
     weatherDistribution |-> processWeatherDistribution(crashes),
     monthlyTrends |-> processMonthlyTrends(crashes)]

\* C19: the four views of AnalyticsPanel are always of one dataset: all four
\* are the initial empty views, or all four are the views of the crash file
\* of the completed load.
C19_FourViewsOfOneDataset ==
    scenario = "AnalyticsPanel" =>
        \/ analyticsPanel.data = AnalyticsInitial.data
        \/ AnalyticsLoaded /\ analyticsPanel.data = ViewsOf(crashFile)

\* The load completed over a file of two crashes.
C19_Witness ==
    /\ AnalyticsLoaded
    /\ Len(crashFile) = MaxCrashRows
    /\ analyticsPanel.data = ViewsOf(crashFile)
    /\ analyticsPanel.data.severityDistribution[1].count = 1
    /\ analyticsPanel.data.weatherDistribution[1].count = 2

\* The positions of the crashes of the file that fall into month m.
CrashesInMonth(m) == {i \in DOMAIN crashFile : crashFile[i].CRASH_MONTH = Num(m)}

\* C20: every crash of a month counts once in the total of its bucket, once
\* more in fatal when FATAL_COUNT > 0 and once more in injury when
\* INJURY_COUNT > 0, the two independently of each other.
C20_FatalAndInjuryCountedIndependently ==
    AnalyticsLoaded =>
        \A m \in 1..MonthsPerYear :
            LET bucket == analyticsPanel.data.monthlyTrends[m] IN
            /\ bucket.total = Cardinality(CrashesInMonth(m))
            /\ bucket.fatal =
                  Cardinality({i \in CrashesInMonth(m) : JsGt(crashFile[i].FATAL_COUNT, 0)})
            /\ bucket.injury =
                  Cardinality({i \in CrashesInMonth(m) : JsGt(crashFile[i].INJURY_COUNT, 0)})

\* One crash with both counts positive: its bucket has fatal + injury > total.
C20_Witness ==
    /\ AnalyticsLoaded
    /\ Len(crashFile) = 1
    /\ \E m \in 1..MonthsPerYear :
          LET bucket == analyticsPanel.data.monthlyTrends[m] IN
          /\ bucket.total = 1 /\ bucket.fatal = 1 /\ bucket.injury = 1
          /\ bucket.fatal + bucket.injury > bucket.total

----------------------------------------------------------------------------
(* Properties of the join index.                                           *)

\* The largest element of a non-empty set of positions.
LastOf(positions) == CHOOSE i \in positions : \A j \in positions : j <= i

\* C21: when several flag rows have the CRN of an enriched record, the record
\* carries the last of them in the order of the flag dataset.
C21_DuplicateCrnLastRowWins ==
    CrashMapLoaded =>
        \A k \in DOMAIN crashMap.data :
            LET e == crashMap.data[k]
                matches == {i \in DOMAIN flagFile : flagFile[i].CRN = e.CRN}
            IN  Cardinality(matches) >= 2 => e.flags = flagFile[LastOf(matches)]

----------------------------------------------------------------------------
(* Properties of the weather view.                                         *)

WeatherLoaded ==
    /\ scenario = "AnalyticsWeather"
    /\ loadData.pc = "done"
    /\ loadData.crash = "ok"
    /\ loadData.flag = "ok"

\* The codes that are keys of the lookup table, and the label a crash is to
\* be counted under: the table's label, or 'Unknown' for every other code.
TableCodes == {1, 2, 3, 4, 5, 6, 7, 8, 98, 99}
InLookupTable(code) == code.t = "number" /\ code.v \in TableCodes
LabelOf(code) == IF InLookupTable(code) THEN weatherMap(code) ELSE "Unknown"

\* C22: the weather view has at most 10 entries, in non-increasing order of
\* count, with distinct labels; every crash is counted under the label of its
\* code, or under 'Unknown' when its code is absent or not in the lookup
\* table, and the count of an entry is the number of crashes with its label.
C22_WeatherViewCountsByLabel ==
    WeatherLoaded =>
        LET dist == analyticsPanel.data.weatherDistribution IN
        /\ Len(dist) <= TopWeather
        /\ \A k \in 1..Len(dist) - 1 : dist[k].count >= dist[k + 1].count
        /\ \A j, k \in DOMAIN dist : j # k => dist[j].weather # dist[k].weather
        /\ \A i \in DOMAIN crashFile :
              \E k \in DOMAIN dist : dist[k].weather = LabelOf(crashFile[i].WEATHER1)
        /\ \A k \in DOMAIN dist :
              dist[k].count =
                  Cardinality({i \in DOMAIN crashFile :
                                  LabelOf(crashFile[i].WEATHER1) = dist[k].weather})

RECURSIVE SumOfCounts(_)
SumOfCounts(dist) ==
    IF dist = <<>> THEN 0 ELSE Head(dist).count + SumOfCounts(Tail(dist))

\* C28: the counts of the weather view add up to the number of rows of the
\* crash dataset.
C28_WeatherCountsSumToTotal ==
    WeatherLoaded =>
        SumOfCounts(analyticsPanel.data.weatherDistribution) = Len(crashFile)

----------------------------------------------------------------------------
(* Properties of the hourly batch of the container.                        *)

\* C23: after a batch that was dispatched in hour d, the stored prediction at
\* index i is the answer to request i and is tagged (d + i) mod 24, whatever
\* the order of arrival; the 24 tags are pairwise distinct and cover 0..23.
C23_TagIsHourOfOwnRequest ==
    (scenario = "PredictionsContainer" /\ container.outcome = "ok") =>
        LET d == container.atStart.hour
            p == container.predictions
        IN  /\ Len(p) = HoursAhead
            /\ \A i \in 0..(HoursAhead - 1) :
                  LET tag == (d + i) % HoursPerDay
                  IN  p[i + 1] = [RiskAt(tag) EXCEPT !.hour = tag]
            /\ \A j, k \in DOMAIN p : j # k => p[j].hour # p[k].hour
            /\ {p[k].hour : k \in DOMAIN p} = 0..(HoursPerDay - 1)

\* A batch dispatched in hour 9 whose twelfth request was answered last: some
\* responses arrived in request order and the others in reverse order.
C23_Witness ==
    /\ scenario = "PredictionsContainer"
    /\ container.outcome = "ok"
    /\ container.atStart.hour = 9
    /\ container.lastArrival = 12
    /\ container.predictions[16].hour = 0

\* C24: while handleLocationSelect runs, and after it has failed at the point
\* request or at an hourly request, predictions is what it was when the
\* handler was called; after it has succeeded, predictions is the 24 answers
\* of the batch.  No state holds a part of a batch.
C24_PredictionsAllOrNothing ==
    scenario = "PredictionsContainer" =>
        LET p == container.predictions IN
        /\ container.handler.pc # "idle" => p = container.atStart.predictions
        /\ container.outcome = "failed" => p = container.atStart.predictions
        /\ container.outcome = "ok" =>
              /\ Len(p) = HoursAhead
              /\ \A k \in DOMAIN p : p[k] # Null /\ p[k].hour \in 0..(HoursPerDay - 1)
        /\ Len(p) \in {0, 1, HoursAhead}

\* A second selection failed at an hourly request after the first had stored
\* its batch: the 24 predictions of the first are still there.
C24_Witness ==
    /\ scenario = "PredictionsContainer"
    /\ container.selects = 2
    /\ container.outcome = "failed"
    /\ container.failure.stage = "batch"
    /\ Len(container.predictions) = HoursAhead

----------------------------------------------------------------------------
(* Properties of the loading and error flags of the service clients.       *)

\* C25: in HotspotMap, loading is true in every state in which a hotspot
\* request is in flight.
C25_LoadingWhileRequestInFlight ==
    (scenario = "HotspotMap" /\ hotspotMap.inflight # {}) => hotspotMap.loading

\* C26: in HotspotMap a failed fetch sets error, and no step clears it: not
\* the start of a later request and not a later answer, which replaces the
\* hotspots only.  In RiskPredictionPanel every new request starts with
\* error null.
C26_HotspotErrorNeverCleared ==
    [][/\ scenario = "HotspotMap" =>
            /\ hotspotMap.error # NoError => hotspotMap'.error # NoError
            /\ hotspotMap'.failure.failed => hotspotMap'.error # NoError
       /\ (scenario = "RiskPredictionPanel" /\ riskPanel'.issued > riskPanel.issued) =>
            riskPanel'.error = NoError]_vars

\* The first request failed and the second, issued later, was answered with
\* hotspots after that: the hotspots are the answer and error is still set.
C26_Witness ==
    /\ scenario = "HotspotMap"
    /\ hotspotMap.issued = 2
    /\ hotspotMap.inflight = {}
    /\ hotspotMap.latest.status = "ok"
    /\ ~hotspotMap.failure.failed
    /\ hotspotMap.hotspots = hotspotMap.latest.hotspots
    /\ hotspotMap.hotspots # <<>>
    /\ hotspotMap.error # NoError

\* C27: in PredictionsContainer the initial load ends, on the success path or
\* on the failure path, and has then set loading to false; once loading is
\* false no step sets it back to true.
C27_InitialLoadEndsLoading ==
    /\ <>(container.fetchData.pc \in {"done", "failed"})
    /\ [](container.fetchData.pc \in {"done", "failed"} => ~container.loading)
    /\ <>[](~container.loading)
    /\ [][~container.loading => ~container'.loading]_vars

\* The initial load succeeded and two selections have run to their end since:
\* loading is still false.
C27_Witness ==
    /\ scenario = "ContainerLoad"
    /\ container.fetchData.pc = "done"
    /\ container.selects = 2
    /\ container.handler.pc = "idle"
    /\ container.outcome = "ok"
    /\ ~container.loading

====
